---------------------------- MODULE Spec2Model ----------------------------
(***************************************************************************)
(* A model of queue.c: a singly linked queue of strings with head and      *)
(* tail insertion, head removal, in-place reversal and a merge sort under  *)
(* natural order with a per-node hash used by merge.                       *)
(*                                                                         *)
(* The heap is explicit.  Nodes live at addresses 1..MaxNodes, value       *)
(* buffers at addresses 1..MaxNodes of a second pool, NULL is 0.  malloc   *)
(* fails or returns the lowest free address; the code compares addresses   *)
(* only for equality.  Strings are sequences of character codes.           *)
(*                                                                         *)
(* In Spec every handler is one action; its loops are recursive operators  *)
(* that follow the code statement by statement.  In SpecRun the loops of   *)
(* q_free, q_reverse and q_sort (merge_sort and merge included) take one   *)
(* iteration per step, so that a loop that does not end is a behaviour.    *)
(* merge_old and q_reverse_old are the earlier revisions of merge and      *)
(* q_reverse.                                                              *)
(***************************************************************************)
EXTENDS Integers, Sequences, FiniteSets, TLC

\* ------------------------------------------------------------------ bounds

MaxNodes == 3
SmallBuf == 2
BigBuf == 13

\* ------------------------------------------------------- program constants

HashMul == 10000007

NULL == 0

Addr == 1..MaxNodes
BufAddr == 1..MaxNodes

\* ----------------------------------------------------------------- strings

StrA2 == <<97, 50>>
StrA10 == <<97, 49, 48>>
StrC == <<99, 116, 109, 110, 118, 118, 108, 106, 108, 112, 108, 100>>
StrX == <<120, 103, 109, 108, 101, 100, 111, 113, 110, 107, 110, 118>>

Values == {StrA2, StrA10, StrC, StrX}

BufSizes == {0, SmallBuf, BigBuf}

\* A cell of the caller's output buffer: <<>> while the call has not written
\* it, <<c>> once it wrote byte c.
Untouched == <<>>

\* ------------------------------------------------------------------- state

VARIABLES
    qp,        \* the caller's queue pointer: NULL or 1
    head,      \* q->head
    tail,      \* q->tail
    size,      \* q->size
    node,      \* node memory: Addr -> [value, next, len, hash]
    nodeLive,  \* node addresses malloc'ed and not freed
    buf,       \* buffer memory: BufAddr -> string
    bufLive,   \* buffer addresses malloc'ed and not freed
    net,       \* calls that returned true: insertions minus removals
    last,      \* the last call: its arguments, result and the queue before it
    run        \* the call in progress when its loops are run step by step

vars == <<qp, head, tail, size, node, nodeLive, buf, bufLive, net, last, run>>

\* ---------------------------------------------------------------- hash

\* The hash field is kept as four limbs of 16 bits, least significant first:
\* 64 bits, the widest integer the field can be.  Two values whose hashes
\* agree at 64 bits agree at every narrower width.
ZeroHash == <<0, 0, 0, 0>>

\* x * HashMul for a limb x, as its low 16 bits and the rest, without
\* leaving 32-bit arithmetic: HashMul is taken byte by byte.
MulLo(x) ==
    (x * (HashMul % 256) + ((x * ((HashMul \div 256) % 256)) % 256) * 256)
        % 65536

MulHi(x) ==
    x * (HashMul \div 65536) + (x * ((HashMul \div 256) % 256)) \div 256
    + (x * (HashMul % 256) + ((x * ((HashMul \div 256) % 256)) % 256) * 256)
        \div 65536

\* e->hash *= 10000007; e->hash += e->value[i];
HashStep(h, c) ==
    LET t1 == MulLo(h[1]) + c
        c1 == MulHi(h[1]) + t1 \div 65536
        t2 == MulLo(h[2]) + c1
        c2 == MulHi(h[2]) + t2 \div 65536
        t3 == MulLo(h[3]) + c2
        c3 == MulHi(h[3]) + t3 \div 65536
        t4 == MulLo(h[4]) + c3
    IN <<t1 % 65536, t2 % 65536, t3 % 65536, t4 % 65536>>

RECURSIVE HashLoop(_, _, _, _)
\* for (i = 0; i < e->len; ++i)
HashLoop(s, len, i, h) ==
    IF i >= len THEN h
    ELSE HashLoop(s, len, i + 1, HashStep(h, s[i + 1]))

Hash(s, len) == HashLoop(s, len, 0, ZeroHash)

\* hash() of every string a caller may pass, computed once.
HashOf == [s \in Values |-> Hash(s, Len(s))]

\* ---------------------------------------------------------- natural order

IsDigit(c) == c >= 48 /\ c <= 57

RECURSIVE RunEnd(_, _)
\* The index after the digit run of s that starts at i.
RunEnd(s, i) ==
    IF i <= Len(s) /\ IsDigit(s[i]) THEN RunEnd(s, i + 1) ELSE i

RECURSIVE RunVal(_, _, _, _)
RunVal(s, i, e, v) ==
    IF i >= e THEN v ELSE RunVal(s, i + 1, e, v * 10 + (s[i] - 48))

Sign(x) == IF x < 0 THEN -1 ELSE IF x > 0 THEN 1 ELSE 0

RECURSIVE NatCmpAt(_, _, _, _)
NatCmpAt(a, b, i, j) ==
    IF i > Len(a) /\ j > Len(b) THEN 0
    ELSE IF i > Len(a) THEN -1
    ELSE IF j > Len(b) THEN 1
    ELSE IF IsDigit(a[i]) /\ IsDigit(b[j])
         THEN LET ea == RunEnd(a, i)
                  eb == RunEnd(b, j)
                  d == RunVal(a, i, ea, 0) - RunVal(b, j, eb, 0)
              IN IF d # 0 THEN Sign(d) ELSE NatCmpAt(a, b, ea, eb)
    ELSE IF a[i] # b[j] THEN Sign(a[i] - b[j])
    ELSE NatCmpAt(a, b, i + 1, j + 1)

strnatcmp(a, b) == NatCmpAt(a, b, 1, 1)

\* strnatcmp() of every two strings a queue may hold, computed once.
NatCmpOf == [a \in Values, b \in Values |-> strnatcmp(a, b)]

\* ------------------------------------------------------------------ memory

NoNode == [value |-> NULL, next |-> NULL, len |-> 0, hash |-> ZeroHash]

NoStr == <<>>

RECURSIVE ChainFrom(_, _, _)
\* The addresses met from p by following next, at most fuel of them.
ChainFrom(nd, p, fuel) ==
    IF p = NULL \/ fuel = 0 THEN <<>>
    ELSE <<p>> \o ChainFrom(nd, nd[p].next, fuel - 1)

Chain == ChainFrom(node, head, MaxNodes + 1)

ValueAt(nd, bf, p) == IF nd[p].value = NULL THEN NoStr ELSE bf[nd[p].value]

ValuesOf(nd, bf, ch) == [i \in 1..Len(ch) |-> ValueAt(nd, bf, ch[i])]

ChainValues == ValuesOf(node, buf, Chain)

Range(f) == {f[i] : i \in DOMAIN f}

\* What malloc may return for a pool with the addresses in live taken: NULL
\* (out of memory) or the lowest free address (a first-fit allocator).
Malloc(pool, live) ==
    {NULL} \cup {a \in pool \ live : \A c \in pool \ live : a <= c}

\* The queue and the heap as one record, the argument and result of the
\* handlers below.
State ==
    [q |-> qp, head |-> head, tail |-> tail, size |-> size, node |-> node,
     nodeLive |-> nodeLive, buf |-> buf, bufLive |-> bufLive]

\* What a handler hands back: the state after it, its return value, the
\* malloc calls (with what each returned) and free calls it made in order,
\* whether it read or wrote through a pointer that is NULL or freed, the
\* caller's output buffer, and (q_sort) the calls of merge_sort.
Res(st, ok, log, fault) ==
    [st |-> st, ok |-> ok, log |-> log, fault |-> fault,
     out |-> <<>>, oob |-> FALSE, calls |-> <<>>]

\* ------------------------------------------------------------------- q_new

q_new(st, q) ==
    IF q = NULL THEN Res(st, FALSE, << <<"malloc", "queue", NULL>> >>, FALSE)
    ELSE Res([st EXCEPT !.q = q, !.head = NULL, !.tail = NULL, !.size = 0],
             TRUE, << <<"malloc", "queue", q>> >>, FALSE)

\* ------------------------------------------------------------------ q_free

RECURSIVE FreeLoop_next_after_free(_, _, _, _, _)
\* The loop of q_free with free(p) before p = p->next: it reads next from
\* the node it has just freed.
FreeLoop_next_after_free(st, p, log, fault, fuel) ==
    IF p = NULL THEN Res(st, TRUE, log, fault)
    ELSE IF fuel = 0 THEN Res(st, TRUE, log, TRUE)
    ELSE LET v == st.node[p].value
             log1 == IF v = NULL THEN log ELSE Append(log, <<"free", "buf", v>>)
             st1 == [st EXCEPT !.bufLive = @ \ {v},
                               !.buf = IF v = NULL THEN @
                                       ELSE [@ EXCEPT ![v] = NoStr],
                               !.nodeLive = @ \ {p},
                               !.node = [@ EXCEPT ![p] = NoNode]]
         IN FreeLoop_next_after_free(st1, st1.node[p].next,
                                     Append(log1, <<"free", "node", p>>),
                                     TRUE, fuel - 1)

RECURSIVE FreeLoop(_, _, _, _, _)
\* while (p) { free(p->value); tmp = p; p = p->next; free(tmp); }
FreeLoop(st, p, log, fault, fuel) ==
    IF p = NULL THEN Res(st, TRUE, log, fault)
    ELSE IF fuel = 0 THEN Res(st, TRUE, log, TRUE)
    ELSE LET v == st.node[p].value
             nx == st.node[p].next
             log1 == IF v = NULL THEN log ELSE Append(log, <<"free", "buf", v>>)
             st1 == [st EXCEPT !.bufLive = @ \ {v},
                               !.buf = IF v = NULL THEN @
                                       ELSE [@ EXCEPT ![v] = NoStr],
                               !.nodeLive = @ \ {p},
                               !.node = [@ EXCEPT ![p] = NoNode]]
         IN FreeLoop(st1, nx, Append(log1, <<"free", "node", p>>),
                     fault \/ p \notin st.nodeLive, fuel - 1)

\* q_free without the test of q: it reads q->head through NULL.
q_free_no_check(st) ==
    LET r == FreeLoop(st, st.head, <<>>, FALSE, MaxNodes + 1)
    IN Res([r.st EXCEPT !.q = NULL, !.head = NULL, !.tail = NULL,
                        !.size = 0],
           TRUE, Append(r.log, <<"free", "queue", st.q>>),
           r.fault \/ st.q = NULL)

q_free(st) ==
    IF st.q = NULL THEN Res(st, TRUE, <<>>, FALSE)
    ELSE LET r == FreeLoop(st, st.head, <<>>, FALSE, MaxNodes + 1)
         IN Res([r.st EXCEPT !.q = NULL, !.head = NULL, !.tail = NULL,
                             !.size = 0],
                TRUE, Append(r.log, <<"free", "queue", st.q>>), r.fault)

\* ----------------------------------------------------------- q_insert_head

\* q_insert_head without free(newh) when the buffer cannot be allocated.
q_insert_head_leak(st, s, n, b) ==
    LET len == Len(s)
    IN IF st.q = NULL THEN Res(st, FALSE, <<>>, FALSE)
       ELSE IF n = NULL
            THEN Res(st, FALSE, << <<"malloc", "node", NULL>> >>, FALSE)
       ELSE IF b = NULL
            THEN Res([st EXCEPT !.nodeLive = @ \cup {n}], FALSE,
                     << <<"malloc", "node", n>>, <<"malloc", "buf", NULL>> >>,
                     FALSE)
       ELSE Res([st EXCEPT
                   !.nodeLive = @ \cup {n},
                   !.bufLive = @ \cup {b},
                   !.buf = [@ EXCEPT ![b] = s],
                   !.node = [@ EXCEPT ![n] =
                               [value |-> b, next |-> st.head, len |-> len,
                                hash |-> HashOf[s]]],
                   !.head = n,
                   !.tail = IF st.size = 0 THEN n ELSE @,
                   !.size = @ + 1],
                TRUE, << <<"malloc", "node", n>>, <<"malloc", "buf", b>> >>,
                FALSE)

q_insert_head(st, s, n, b) ==
    LET len == Len(s)
    IN IF st.q = NULL THEN Res(st, FALSE, <<>>, FALSE)
       ELSE IF n = NULL
            THEN Res(st, FALSE, << <<"malloc", "node", NULL>> >>, FALSE)
       ELSE IF b = NULL
            THEN Res(st, FALSE,
                     << <<"malloc", "node", n>>, <<"malloc", "buf", NULL>>,
                        <<"free", "node", n>> >>, FALSE)
       ELSE Res([st EXCEPT
                   !.nodeLive = @ \cup {n},
                   !.bufLive = @ \cup {b},
                   !.buf = [@ EXCEPT ![b] = s],
                   !.node = [@ EXCEPT ![n] =
                               [value |-> b, next |-> st.head, len |-> len,
                                hash |-> HashOf[s]]],
                   !.head = n,
                   !.tail = IF st.size = 0 THEN n ELSE @,
                   !.size = @ + 1],
                TRUE, << <<"malloc", "node", n>>, <<"malloc", "buf", b>> >>,
                FALSE)

\* ----------------------------------------------------------- q_insert_tail

\* q_insert_tail that tests q->tail, not q->size, for the empty queue.
q_insert_tail_by_tail(st, s, n, b) ==
    LET len == Len(s)
    IN IF st.q = NULL THEN Res(st, FALSE, <<>>, FALSE)
       ELSE IF n = NULL
            THEN Res(st, FALSE, << <<"malloc", "node", NULL>> >>, FALSE)
       ELSE IF b = NULL
            THEN Res(st, FALSE,
                     << <<"malloc", "node", n>>, <<"malloc", "buf", NULL>>,
                        <<"free", "node", n>> >>, FALSE)
       ELSE LET nd1 == [st.node EXCEPT ![n] =
                          [value |-> b, next |-> NULL, len |-> len,
                           hash |-> HashOf[s]]]
                bad == st.tail # NULL /\ st.tail \notin st.nodeLive
                nd2 == IF st.tail = NULL \/ bad THEN nd1
                       ELSE [nd1 EXCEPT ![st.tail].next = n]
            IN Res([st EXCEPT
                      !.nodeLive = @ \cup {n},
                      !.bufLive = @ \cup {b},
                      !.buf = [@ EXCEPT ![b] = s],
                      !.node = nd2,
                      !.head = IF st.tail = NULL THEN n ELSE @,
                      !.tail = n,
                      !.size = @ + 1],
                   TRUE, << <<"malloc", "node", n>>, <<"malloc", "buf", b>> >>,
                   bad)

q_insert_tail(st, s, n, b) ==
    LET len == Len(s)
    IN IF st.q = NULL THEN Res(st, FALSE, <<>>, FALSE)
       ELSE IF n = NULL
            THEN Res(st, FALSE, << <<"malloc", "node", NULL>> >>, FALSE)
       ELSE IF b = NULL
            THEN Res(st, FALSE,
                     << <<"malloc", "node", n>>, <<"malloc", "buf", NULL>>,
                        <<"free", "node", n>> >>, FALSE)
       ELSE LET nd1 == [st.node EXCEPT ![n] =
                          [value |-> b, next |-> NULL, len |-> len,
                           hash |-> HashOf[s]]]
                \* if (!q->size) q->head = q->tail = newt;
                \* else q->tail->next = newt;
                bad == st.size # 0 /\ st.tail \notin st.nodeLive
                nd2 == IF st.size = 0 \/ bad THEN nd1
                       ELSE [nd1 EXCEPT ![st.tail].next = n]
            IN Res([st EXCEPT
                      !.nodeLive = @ \cup {n},
                      !.bufLive = @ \cup {b},
                      !.buf = [@ EXCEPT ![b] = s],
                      !.node = nd2,
                      !.head = IF st.size = 0 THEN n ELSE @,
                      !.tail = n,
                      !.size = @ + 1],
                   TRUE, << <<"malloc", "node", n>>, <<"malloc", "buf", b>> >>,
                   bad)

\* ----------------------------------------------------------- q_remove_head

\* strncpy(sp, src, n), then sp[n - 1] = '\0', on a buffer of n cells: cell
\* i holds src[i] while src lasts and the padding NUL after it.
CopyOut(src, n) ==
    [i \in 1..n |-> IF i = n THEN <<0>>
                    ELSE IF i <= Len(src) THEN <<src[i]>> ELSE <<0>>]

\* q_remove_head without q->size--.
q_remove_head_no_dec(st, sp, bufsize) ==
    LET blank == [i \in 1..bufsize |-> Untouched]
    IN IF st.q = NULL \/ st.head = NULL
       THEN [Res(st, FALSE, <<>>, FALSE) EXCEPT !.out = blank]
       ELSE LET h == st.head
                v == st.node[h].value
                st1 == [st EXCEPT
                          !.head = st.node[h].next,
                          !.bufLive = @ \ {v},
                          !.buf = [@ EXCEPT ![v] = NoStr],
                          !.nodeLive = @ \ {h},
                          !.node = [@ EXCEPT ![h] = NoNode]]
            IN [Res(st1, TRUE,
                    << <<"free", "buf", v>>, <<"free", "node", h>> >>,
                    h \notin st.nodeLive)
                  EXCEPT !.out = IF sp THEN CopyOut(st.buf[v], bufsize)
                                 ELSE blank,
                         !.oob = sp /\ bufsize = 0]

\* q_remove_head that terminates the caller's buffer before it looks at
\* the queue.
q_remove_head_writes_first(st, sp, bufsize) ==
    LET blank == [i \in 1..bufsize |-> Untouched]
        ended == [i \in 1..bufsize |-> IF i = bufsize THEN <<0>> ELSE Untouched]
    IN IF st.q = NULL \/ st.head = NULL
       THEN [Res(st, FALSE, <<>>, FALSE)
               EXCEPT !.out = IF sp THEN ended ELSE blank,
                      !.oob = sp /\ bufsize = 0]
       ELSE LET h == st.head
                v == st.node[h].value
                st1 == [st EXCEPT
                          !.head = st.node[h].next,
                          !.size = @ - 1,
                          !.bufLive = @ \ {v},
                          !.buf = [@ EXCEPT ![v] = NoStr],
                          !.nodeLive = @ \ {h},
                          !.node = [@ EXCEPT ![h] = NoNode]]
            IN [Res(st1, TRUE,
                    << <<"free", "buf", v>>, <<"free", "node", h>> >>,
                    h \notin st.nodeLive)
                  EXCEPT !.out = IF sp THEN CopyOut(st.buf[v], bufsize)
                                 ELSE blank,
                         !.oob = sp /\ bufsize = 0]

q_remove_head(st, sp, bufsize) ==
    LET blank == [i \in 1..bufsize |-> Untouched]
    IN IF st.q = NULL \/ st.head = NULL
       THEN [Res(st, FALSE, <<>>, FALSE) EXCEPT !.out = blank]
       ELSE LET h == st.head
                v == st.node[h].value
                st1 == [st EXCEPT
                          !.head = st.node[h].next,
                          !.size = @ - 1,
                          !.bufLive = @ \ {v},
                          !.buf = [@ EXCEPT ![v] = NoStr],
                          !.nodeLive = @ \ {h},
                          !.node = [@ EXCEPT ![h] = NoNode]]
            IN [Res(st1, TRUE,
                    << <<"free", "buf", v>>, <<"free", "node", h>> >>,
                    h \notin st.nodeLive)
                  EXCEPT !.out = IF sp THEN CopyOut(st.buf[v], bufsize)
                                 ELSE blank,
                         \* sp[bufsize - 1] with bufsize = 0 is outside sp
                         !.oob = sp /\ bufsize = 0]

\* ------------------------------------------------------------------ q_size

q_size(st) == IF st.q # NULL THEN st.size ELSE 0

\* --------------------------------------------------------------- q_reverse

RECURSIVE ReverseLoop(_, _, _, _, _)
\* while (p) { next = p->next; p->next = prev; prev = p; p = next; }
ReverseLoop(st, p, prev, fault, fuel) ==
    IF p = NULL THEN Res(st, TRUE, <<>>, fault)
    ELSE IF fuel = 0 \/ p \notin st.nodeLive THEN Res(st, TRUE, <<>>, TRUE)
    ELSE ReverseLoop([st EXCEPT !.node = [@ EXCEPT ![p].next = prev]],
                     st.node[p].next, p, fault, fuel - 1)

\* q_reverse without the swap of q->head and q->tail.
q_reverse_no_swap(st) ==
    IF st.q = NULL \/ st.size <= 1 THEN Res(st, TRUE, <<>>, FALSE)
    ELSE LET r == ReverseLoop(st, st.head, NULL, FALSE, MaxNodes + 1)
         IN Res(r.st, TRUE, <<>>, r.fault)

\* q_reverse that starts at the second node with prev = q->head and never
\* stores NULL in the old head's next.
q_reverse_cycle(st) ==
    IF st.q = NULL \/ st.size <= 1 THEN Res(st, TRUE, <<>>, FALSE)
    ELSE LET r == ReverseLoop(st, st.node[st.head].next, st.head, FALSE,
                              MaxNodes + 1)
         IN Res([r.st EXCEPT !.head = st.tail, !.tail = st.head],
                TRUE, <<>>, r.fault)

q_reverse(st) ==
    IF st.q = NULL \/ st.size <= 1 THEN Res(st, TRUE, <<>>, FALSE)
    ELSE LET r == ReverseLoop(st, st.head, NULL, FALSE, MaxNodes + 1)
         IN Res([r.st EXCEPT !.head = st.tail, !.tail = st.head],
                TRUE, <<>>, r.fault)

\* q_reverse before it was rewritten: the loop starts at the second node
\* with prev = q->head, and q->head->next = NULL follows the loop.
q_reverse_old(st) ==
    IF st.q = NULL \/ st.size <= 1 THEN Res(st, TRUE, <<>>, FALSE)
    ELSE LET r == ReverseLoop(st, st.node[st.head].next, st.head, FALSE,
                              MaxNodes + 1)
         IN Res([r.st EXCEPT !.node = [@ EXCEPT ![st.head].next = NULL],
                             !.head = st.tail, !.tail = st.head],
                TRUE, <<>>, r.fault \/ st.head \notin st.nodeLive)

\* ------------------------------------------------------------------- merge

\* *indirect = v, where indirect is &newh (NULL here) or &node->next.
Store(m, ind, v) ==
    IF ind = NULL THEN [m EXCEPT !.newh = v]
    ELSE [m EXCEPT !.node = [@ EXCEPT ![ind].next = v]]

\* p points to a block that is not allocated: it holds what free left.
Dead(nd, p) == p # NULL /\ nd[p] = NoNode

TakeA(nd, bf, a, b) ==
    b = NULL
    \/ (a # NULL /\ nd[a].hash # nd[b].hash
        /\ NatCmpOf[ValueAt(nd, bf, a), ValueAt(nd, bf, b)] # 1)

RECURSIVE MergeLoop(_, _, _, _, _, _)
\* m holds the node memory and newh; ind is indirect.
MergeLoop(m, bf, a, b, ind, fuel) ==
    IF a = NULL /\ b = NULL THEN Store(m, ind, NULL)
    ELSE IF fuel = 0 THEN [m EXCEPT !.fault = TRUE]
    ELSE LET m0 == [m EXCEPT !.fault = @ \/ Dead(m.node, a)
                                       \/ Dead(m.node, b)]
         IN IF TakeA(m.node, bf, a, b)
            THEN LET m1 == Store(m0, ind, a)
                 IN MergeLoop(m1, bf, m1.node[a].next, b, a, fuel - 1)
            ELSE LET m1 == Store(m0, ind, b)
                 IN MergeLoop(m1, bf, a, m1.node[b].next, b, fuel - 1)

merge(nd, bf, a, b) ==
    MergeLoop([node |-> nd, newh |-> NULL, fault |-> FALSE], bf, a, b, NULL,
              2 * MaxNodes + 2)

\* ---------------------------------------- merge before the hash was added

\* The condition of the earlier merge: no test of the hashes.
TakeA_old(nd, bf, a, b) ==
    b = NULL
    \/ (a # NULL /\ NatCmpOf[ValueAt(nd, bf, a), ValueAt(nd, bf, b)] # 1)

RECURSIVE MergeLoop_old(_, _, _, _, _, _)
\* while (a || b) { p->next = <a or b>; p = p->next; <a or b> = p->next; }
\* p->next = NULL;
MergeLoop_old(m, bf, a, b, p, fuel) ==
    IF a = NULL /\ b = NULL THEN Store(m, p, NULL)
    ELSE IF fuel = 0 THEN [m EXCEPT !.fault = TRUE]
    ELSE IF TakeA_old(m.node, bf, a, b)
         THEN LET m1 == Store(m, p, a)
              IN MergeLoop_old(m1, bf, m1.node[a].next, b, a, fuel - 1)
         ELSE LET m1 == Store(m, p, b)
              IN MergeLoop_old(m1, bf, a, m1.node[b].next, b, fuel - 1)

\* The first node is taken before the loop and becomes newh; with both
\* chains empty the code reads a->next through NULL.
merge_old(nd, bf, a, b) ==
    LET m == [node |-> nd, newh |-> NULL, fault |-> FALSE]
    IN IF a = NULL /\ b = NULL THEN [m EXCEPT !.fault = TRUE]
       ELSE IF TakeA_old(nd, bf, a, b)
            THEN MergeLoop_old([m EXCEPT !.newh = a], bf, nd[a].next, b, a,
                               2 * MaxNodes + 2)
            ELSE MergeLoop_old([m EXCEPT !.newh = b], bf, a, nd[b].next, b,
                               2 * MaxNodes + 2)

\* -------------------------------------------------------------- merge_sort

RECURSIVE SplitLoop(_, _, _, _)
\* for (i = 0; i < mid; i++) { next = pmid->next;
\*     if (i == mid - 1) pmid->next = NULL; pmid = next; }
SplitLoop(m, pmid, i, mid) ==
    IF i >= mid THEN [m EXCEPT !.newh = pmid]
    ELSE IF pmid = NULL THEN [m EXCEPT !.newh = NULL, !.fault = TRUE]
    ELSE LET m0 == [m EXCEPT !.fault = @ \/ Dead(m.node, pmid)]
         IN SplitLoop(IF i = mid - 1
                      THEN [m0 EXCEPT !.node = [@ EXCEPT ![pmid].next = NULL]]
                      ELSE m0,
                      m.node[pmid].next, i + 1, mid)

\* What is kept of one call of merge_sort: its size argument, the chain
\* from its head argument as the call found it, and the two chains after
\* the cut (empty when the call returns at once).
SortCall(nd, hd, sz, cut, right) ==
    [size |-> sz, chain |-> ChainFrom(nd, hd, MaxNodes + 1),
     left |-> IF sz <= 1 THEN <<>> ELSE ChainFrom(cut, hd, MaxNodes + 1),
     right |-> IF sz <= 1 THEN <<>> ELSE ChainFrom(cut, right, MaxNodes + 1)]

RECURSIVE merge_sort_mid_up(_, _, _, _)
\* merge_sort with mid = (size + 1) / 2.
merge_sort_mid_up(nd, bf, hd, sz) ==
    LET mid == (sz + 1) \div 2
        me == SortCall(nd, hd, sz, nd, NULL)
    IN IF sz = 1
       THEN [node |-> nd, newh |-> hd, fault |-> FALSE, calls |-> <<me>>]
       ELSE IF sz <= 0
            THEN [node |-> nd, newh |-> hd, fault |-> TRUE, calls |-> <<me>>]
       ELSE LET sp == SplitLoop([node |-> nd, newh |-> NULL, fault |-> FALSE],
                                hd, 0, mid)
                l == merge_sort_mid_up(sp.node, bf, hd, mid)
                r == merge_sort_mid_up(l.node, bf, sp.newh, sz - mid)
                mg == merge(r.node, bf, l.newh, r.newh)
                cs == <<SortCall(nd, hd, sz, sp.node, sp.newh)>>
            IN IF sp.fault
               THEN [node |-> sp.node, newh |-> hd, fault |-> TRUE,
                     calls |-> cs]
               ELSE [node |-> mg.node, newh |-> mg.newh,
                     fault |-> l.fault \/ r.fault \/ mg.fault,
                     calls |-> cs \o l.calls \o r.calls]

RECURSIVE merge_sort(_, _, _, _)
\* The result holds the node memory, the head of the sorted chain in newh,
\* fault, and the calls made, this one first.  A call with size 0 never
\* returns in the code (it calls itself with size 0 again); here it is a
\* fault.
merge_sort(nd, bf, hd, sz) ==
    LET mid == sz \div 2
        me == SortCall(nd, hd, sz, nd, NULL)
    IN IF sz = 1
       THEN [node |-> nd, newh |-> hd, fault |-> FALSE, calls |-> <<me>>]
       ELSE IF sz <= 0
            THEN [node |-> nd, newh |-> hd, fault |-> TRUE, calls |-> <<me>>]
       ELSE LET sp == SplitLoop([node |-> nd, newh |-> NULL, fault |-> FALSE],
                                hd, 0, mid)
                l == merge_sort(sp.node, bf, hd, mid)
                r == merge_sort(l.node, bf, sp.newh, sz - mid)
                mg == merge(r.node, bf, l.newh, r.newh)
                cs == <<SortCall(nd, hd, sz, sp.node, sp.newh)>>
            IN IF sp.fault
               THEN [node |-> sp.node, newh |-> hd, fault |-> TRUE,
                     calls |-> cs]
               ELSE [node |-> mg.node, newh |-> mg.newh,
                     fault |-> l.fault \/ r.fault \/ mg.fault,
                     calls |-> cs \o l.calls \o r.calls]

\* ------------------------------------------------------------------ q_sort

RECURSIVE TailWalk(_, _, _, _)
\* for (p = q->head; p; p = p->next) q->tail = p;
TailWalk(nd, p, t, fuel) ==
    IF p = NULL \/ fuel = 0 THEN t
    ELSE TailWalk(nd, nd[p].next, p, fuel - 1)

\* q_sort without the walk that repairs q->tail.
q_sort_no_tail(st) ==
    IF st.q = NULL \/ st.size <= 1 THEN Res(st, TRUE, <<>>, FALSE)
    ELSE LET ms == merge_sort(st.node, st.buf, st.head, st.size)
         IN Res([st EXCEPT !.node = ms.node, !.head = ms.newh],
                TRUE, <<>>, ms.fault)

q_sort(st) ==
    IF st.q = NULL \/ st.size <= 1 THEN Res(st, TRUE, <<>>, FALSE)
    ELSE LET ms == merge_sort(st.node, st.buf, st.head, st.size)
             walked == ChainFrom(ms.node, ms.newh, MaxNodes + 1)
         IN [Res([st EXCEPT !.node = ms.node, !.head = ms.newh,
                            !.tail = TailWalk(ms.node, ms.newh, st.tail,
                                              MaxNodes + 1)],
                 TRUE, <<>>,
                 ms.fault \/ \E i \in 1..Len(walked) :
                                Dead(ms.node, walked[i]))
               EXCEPT !.calls = ms.calls]

\* ----------------------------------------------------------------- actions

\* The queue as a caller sees it, kept in the record of a call as the queue
\* the call began with.
Seen ==
    [q |-> qp, head |-> head, tail |-> tail, size |-> size, chain |-> Chain,
     vals |-> ChainValues, nodeLive |-> nodeLive, bufLive |-> bufLive]

NoQueue ==
    [q |-> NULL, head |-> NULL, tail |-> NULL, size |-> 0, chain |-> <<>>,
     vals |-> <<>>, nodeLive |-> {}, bufLive |-> {}]

\* The record of a call: its name, arguments and result, and the queue as it
\* was when the call began.  before2 is the queue as it was when the call
\* preceding this one began, kept only when both calls are q_reverse.
Call(op, r, arg, sp, bufsize, ret) ==
    [op |-> op, ok |-> r.ok, ret |-> ret, arg |-> arg, sp |-> sp,
     bufsize |-> bufsize, out |-> r.out, oob |-> r.oob, log |-> r.log,
     fault |-> r.fault, calls |-> r.calls, before |-> Seen,
     before2 |-> IF op = "q_reverse" /\ last.op = "q_reverse"
                 THEN last.before ELSE NoQueue]

NoCall ==
    [op |-> "none", ok |-> FALSE, ret |-> 0, arg |-> NoStr, sp |-> FALSE,
     bufsize |-> 0, out |-> <<>>, oob |-> FALSE, log |-> <<>>,
     fault |-> FALSE, calls |-> <<>>, before |-> NoQueue,
     before2 |-> NoQueue]

\* The heap with no queue and nothing allocated.
NoState ==
    [q |-> NULL, head |-> NULL, tail |-> NULL, size |-> 0,
     node |-> [a \in Addr |-> NoNode], nodeLive |-> {},
     buf |-> [a \in BufAddr |-> NoStr], bufLive |-> {}]

\* No call is in progress.  In a call that is, pc names the function whose
\* loop runs, p and prev are its locals, stack holds the frames of
\* merge_sort, and start is the state the call began in.
Idle ==
    [pc |-> "idle", p |-> NULL, prev |-> NULL, stack |-> <<>>,
     start |-> NoState]

\* The variables after a handler returned r.
Becomes(r) ==
    /\ qp' = r.st.q
    /\ head' = r.st.head
    /\ tail' = r.st.tail
    /\ size' = r.st.size
    /\ node' = r.st.node
    /\ nodeLive' = r.st.nodeLive
    /\ buf' = r.st.buf
    /\ bufLive' = r.st.bufLive
    /\ run' = run

Init ==
    /\ qp \in {NULL, 1}
    /\ head = NULL
    /\ tail = NULL
    /\ size = 0
    /\ node = [a \in Addr |-> NoNode]
    /\ nodeLive = {}
    /\ buf = [a \in BufAddr |-> NoStr]
    /\ bufLive = {}
    /\ net = 0
    /\ last = NoCall
    /\ run = Idle

\* q = q_new(), by a caller that holds no queue.
QNew ==
    /\ qp = NULL
    /\ \E q \in {NULL, 1} :
          LET r == q_new(State, q)
          IN /\ Becomes(r)
             /\ net' = 0
             /\ last' = Call("q_new", r, NoStr, FALSE, 0, 0)

\* q_free(q); the caller drops its pointer.
QFree ==
    LET r == q_free(State)
    IN /\ Becomes(r)
       /\ net' = 0
       /\ last' = Call("q_free", r, NoStr, FALSE, 0, 0)

InsertHead ==
    \E s \in Values, n \in Malloc(Addr, nodeLive),
       b \in Malloc(BufAddr, bufLive) :
          LET r == q_insert_head(State, s, n, b)
          IN /\ Becomes(r)
             /\ net' = IF r.ok THEN net + 1 ELSE net
             /\ last' = Call("q_insert_head", r, s, FALSE, 0, 0)

InsertTail ==
    \E s \in Values, n \in Malloc(Addr, nodeLive),
       b \in Malloc(BufAddr, bufLive) :
          LET r == q_insert_tail(State, s, n, b)
          IN /\ Becomes(r)
             /\ net' = IF r.ok THEN net + 1 ELSE net
             /\ last' = Call("q_insert_tail", r, s, FALSE, 0, 0)

\* The caller passes no buffer (and no size), or a buffer of bufsize cells.
RemoveHead ==
    \E sp \in BOOLEAN, bufsize \in BufSizes :
          LET r == q_remove_head(State, sp, bufsize)
          IN /\ Becomes(r)
             /\ net' = IF r.ok THEN net - 1 ELSE net
             /\ last' = Call("q_remove_head", r, NoStr, sp, bufsize, 0)

Size ==
    LET r == Res(State, TRUE, <<>>, FALSE)
    IN /\ Becomes(r)
       /\ net' = net
       /\ last' = Call("q_size", r, NoStr, FALSE, 0, q_size(State))

Reverse ==
    LET r == q_reverse(State)
    IN /\ Becomes(r)
       /\ net' = net
       /\ last' = Call("q_reverse", r, NoStr, FALSE, 0, 0)

Sort ==
    LET r == q_sort(State)
    IN /\ Becomes(r)
       /\ net' = net
       /\ last' = Call("q_sort", r, NoStr, FALSE, 0, 0)

Next ==
    \/ QNew
    \/ QFree
    \/ InsertHead
    \/ InsertTail
    \/ RemoveHead
    \/ Size
    \/ Reverse
    \/ Sort

Spec == Init /\ [][Next]_vars

\* ------------------------------------------------------------------ claims

Inserts == {"q_insert_head", "q_insert_tail"}

\* The bytes of a written buffer up to its first NUL.
RECURSIVE CStr(_)
CStr(cells) ==
    IF cells = <<>> \/ Head(cells) = <<0>> \/ Head(cells) = Untouched THEN <<>>
    ELSE <<Head(cells)[1]>> \o CStr(Tail(cells))

\* C1: while a queue exists, size equals the calls of q_insert_head and
\* q_insert_tail that returned true minus the calls of q_remove_head that
\* returned true, is never negative, and equals the number of nodes reachable
\* from head, each met once.
C1_SizeIsNetCount ==
    qp # NULL =>
        /\ size = net
        /\ size >= 0
        /\ size = Len(Chain)
        /\ size = Cardinality(Range(Chain))

C1_Witness ==
    /\ last.op = "q_remove_head"
    /\ last.ok
    /\ size = 2

\* C2: the queue behaves as a sequence.  A q_insert_head(s) that returned
\* true put one new node holding s before the nodes that were there, a
\* q_insert_tail(s) that returned true put it after them, and a q_remove_head
\* that returned true took the first node away and, into a buffer longer
\* than the value, copied that node's value.
C2_SequenceBehaviour ==
    /\ (last.op = "q_insert_head" /\ last.ok) =>
          /\ Chain = <<head>> \o last.before.chain
          /\ head \notin last.before.nodeLive
          /\ ChainValues = <<last.arg>> \o last.before.vals
    /\ (last.op = "q_insert_tail" /\ last.ok) =>
          /\ Chain = last.before.chain \o <<tail>>
          /\ tail \notin last.before.nodeLive
          /\ ChainValues = last.before.vals \o <<last.arg>>
    /\ (last.op = "q_remove_head" /\ last.ok) =>
          /\ last.before.chain # <<>>
          /\ Chain = Tail(last.before.chain)
          /\ ChainValues = Tail(last.before.vals)
          /\ (last.sp /\ last.bufsize > Len(Head(last.before.vals))) =>
                CStr(last.out) = Head(last.before.vals)

\* An insertion at the tail of a queue that was emptied by q_remove_head
\* (its tail pointer still names the node removed last).
C2_Witness ==
    /\ last.op = "q_insert_tail"
    /\ last.ok
    /\ last.before.size = 0
    /\ last.before.tail # NULL

\* C3: whenever the queue is not empty, tail is the last node reachable from
\* head, its next is NULL, and head = tail when the queue holds one node.
C3_TailIsLastNode ==
    (qp # NULL /\ size > 0) =>
        /\ Chain # <<>>
        /\ tail = Chain[Len(Chain)]
        /\ node[tail].next = NULL
        /\ tail \in nodeLive
        /\ (size = 1 => head = tail)

\* A q_sort that moved another node to the end.
C3_Witness ==
    /\ last.op = "q_sort"
    /\ size >= 2
    /\ tail # last.before.tail
    /\ head # last.before.head

\* C4: while a queue exists, head and tail are both NULL exactly when size
\* is 0.
C4_HeadTailNullIffEmpty ==
    qp # NULL => ((head = NULL /\ tail = NULL) <=> size = 0)

\* C5: after q_sort of a queue of two or more elements the values from head
\* to tail never decrease under natural order.
C5_SortedAfterSort ==
    (last.op = "q_sort" /\ last.before.size >= 2) =>
        \A i \in 1..(Len(ChainValues) - 1) :
            strnatcmp(ChainValues[i], ChainValues[i + 1]) <= 0

\* The position of node p in chain ch.
Pos(ch, p) == CHOOSE i \in 1..Len(ch) : ch[i] = p

\* C6: q_sort is stable: two nodes whose values are equal under natural
\* order stay in the order they had before the call.
C6_SortIsStable ==
    (last.op = "q_sort" /\ last.before.size >= 2) =>
        \A i, j \in 1..Len(last.before.chain) :
            (/\ i < j
             /\ strnatcmp(last.before.vals[i], last.before.vals[j]) = 0)
            => Pos(Chain, last.before.chain[i])
                   < Pos(Chain, last.before.chain[j])

\* The addresses of one kind that the last call freed, in order.
Freed(kind) ==
    LET hits == SelectSeq(last.log,
                          LAMBDA e : e[1] = "free" /\ e[2] = kind)
    IN [i \in 1..Len(hits) |-> hits[i][3]]

\* The addresses of one kind that malloc returned to the last call.
Got(kind) ==
    LET hits == SelectSeq(last.log,
                          LAMBDA e : e[1] = "malloc" /\ e[2] = kind
                                     /\ e[3] # NULL)
    IN [i \in 1..Len(hits) |-> hits[i][3]]

\* C7: q_free of a queue frees every live node and every live value buffer
\* once and then the queue: nothing stays allocated, nothing is freed twice,
\* and no field of a freed node is read.
C7_FreeReleasesAllOnce ==
    (last.op = "q_free" /\ last.before.q # NULL) =>
        /\ ~last.fault
        /\ Range(Freed("node")) = last.before.nodeLive
        /\ Len(Freed("node")) = Cardinality(last.before.nodeLive)
        /\ Range(Freed("buf")) = last.before.bufLive
        /\ Len(Freed("buf")) = Cardinality(last.before.bufLive)
        /\ Freed("queue") = <<last.before.q>>
        /\ last.log[Len(last.log)] = <<"free", "queue", last.before.q>>
        /\ Got("node") = <<>> /\ Got("buf") = <<>>
        /\ nodeLive = {} /\ bufLive = {} /\ qp = NULL

\* A q_free of a queue of three nodes that earlier calls have reordered: the
\* chain follows neither the rising nor the falling order of addresses.
C7_Witness ==
    /\ last.op = "q_free"
    /\ last.before.size >= 3
    /\ \E i \in 1..2 : last.before.chain[i] > last.before.chain[i + 1]
    /\ \E i \in 1..2 : last.before.chain[i] < last.before.chain[i + 1]

\* C8: a q_insert_head or q_insert_tail on a queue in which malloc returned
\* NULL returns false, leaves head, tail, size, the chain and its values as
\* they were, and leaves nothing it allocated live.
C8_FailedInsertUnchanged ==
    (/\ last.op \in Inserts
     /\ last.before.q # NULL
     /\ \E i \in 1..Len(last.log) :
           last.log[i][1] = "malloc" /\ last.log[i][3] = NULL)
    => /\ ~last.ok
       /\ Seen = last.before
       /\ Range(Got("node")) \subseteq Range(Freed("node"))
       /\ Range(Got("buf")) \subseteq Range(Freed("buf"))

\* A q_insert_head whose node was allocated and whose buffer was not.
C8_Witness ==
    /\ last.op = "q_insert_head"
    /\ ~last.ok
    /\ last.before.size >= 1
    /\ Got("node") # <<>>
    /\ Freed("node") = Got("node")

\* C9: q_remove_head on no queue or on an empty queue returns false, leaves
\* size at 0 and the queue as it was, frees nothing and writes no cell of
\* the output buffer, nor any cell outside it.
C9_RemoveFromEmptyFails ==
    (last.op = "q_remove_head"
     /\ (last.before.q = NULL \/ last.before.size = 0))
    => /\ ~last.ok
       /\ size = 0
       /\ q_size(State) = 0
       /\ Seen = last.before
       /\ last.log = <<>>
       /\ ~last.oob
       /\ \A i \in 1..Len(last.out) : last.out[i] = Untouched

\* A q_remove_head with a buffer on a queue that earlier q_remove_head calls
\* emptied.
C9_Witness ==
    /\ last.op = "q_remove_head"
    /\ ~last.ok
    /\ last.before.q # NULL
    /\ last.before.tail # NULL
    /\ last.sp
    /\ last.bufsize > 0

\* The queue as a caller sees it in state st.
SeenIn(st) ==
    [head |-> st.head, tail |-> st.tail, size |-> st.size,
     chain |-> ChainFrom(st.node, st.head, MaxNodes + 1)]

\* C10: q_reverse applied twice to any reachable queue gives back the same
\* order of nodes from head to tail, and the same head, tail and size.
C10_ReverseTwiceIsIdentity ==
    /\ SeenIn(q_reverse(q_reverse(State).st).st) = SeenIn(State)
    /\ (last.op = "q_reverse" /\ last.before2.q # NULL) =>
          /\ Chain = last.before2.chain
          /\ ChainValues = last.before2.vals
          /\ head = last.before2.head
          /\ tail = last.before2.tail
          /\ size = last.before2.size

\* The second of two q_reverse calls in a row on a queue of three nodes.
C10_Witness ==
    /\ last.op = "q_reverse"
    /\ last.before2.size >= 3
    /\ last.before.chain # Chain
    /\ Chain = last.before2.chain

\* The values from head to tail of the queue in state st.
ValuesIn(st) ==
    ValuesOf(st.node, st.buf, ChainFrom(st.node, st.head, MaxNodes + 1))

\* C11: q_sort is idempotent: q_sort applied to a queue that q_sort has just
\* sorted leaves the values from head to tail in the order the first call
\* left them.
C11_SortIsIdempotent ==
    ValuesIn(q_sort(q_sort(State).st).st) = ValuesIn(q_sort(State).st)

\* What q_reverse or q_sort, having returned r from the state State, left
\* alone: the blocks that are allocated, the strings, every field of every
\* node but next, the queue handle and size; and the chain from head holds
\* the nodes it held, each once.
OnlyRelinked(r) ==
    /\ r.log = <<>>
    /\ r.st.q = qp
    /\ r.st.size = size
    /\ r.st.nodeLive = nodeLive
    /\ r.st.bufLive = bufLive
    /\ r.st.buf = buf
    /\ \A a \in Addr : [r.st.node[a] EXCEPT !.next = node[a].next] = node[a]
    /\ LET ch == ChainFrom(r.st.node, r.st.head, MaxNodes + 1)
       IN /\ Len(ch) = Len(Chain)
          /\ Range(ch) = Range(Chain)

\* C12: q_reverse and q_sort neither allocate nor free: the live nodes, each
\* node's value and the size are the same before and after, every node is
\* reachable from head exactly once, and only next fields, head and tail
\* change.
C12_ReverseSortOnlyRelink ==
    /\ OnlyRelinked(q_reverse(State))
    /\ OnlyRelinked(q_sort(State))
    /\ last.op \in {"q_reverse", "q_sort"} =>
          /\ last.log = <<>>
          /\ nodeLive = last.before.nodeLive
          /\ bufLive = last.before.bufLive
          /\ size = last.before.size
          /\ Len(Chain) = size
          /\ Cardinality(Range(Chain)) = size
          /\ Range(Chain) = Range(last.before.chain)
          /\ \A i \in 1..Len(Chain) : \E j \in 1..Len(last.before.chain) :
                /\ Chain[i] = last.before.chain[j]
                /\ ChainValues[i] = last.before.vals[j]

\* q_sort has put a queue of three nodes in another order.
C12_Witness ==
    /\ last.op = "q_sort"
    /\ size >= 3
    /\ Chain # last.before.chain
    /\ nodeLive = last.before.nodeLive

\* A handler that returned r from the state State touched no memory.
Untouching(r) ==
    /\ r.st = State
    /\ r.log = <<>>
    /\ ~r.fault
    /\ ~r.oob

\* C13: every operation called with no queue handle does nothing: the
\* insertions and q_remove_head return false, q_size returns 0, and
\* q_reverse, q_sort and q_free return without touching memory.
C13_NullQueueNoOp ==
    /\ qp = NULL =>
          /\ \A s \in Values, n \in Malloc(Addr, nodeLive),
                b \in Malloc(BufAddr, bufLive) :
                /\ Untouching(q_insert_head(State, s, n, b))
                /\ ~q_insert_head(State, s, n, b).ok
                /\ Untouching(q_insert_tail(State, s, n, b))
                /\ ~q_insert_tail(State, s, n, b).ok
          /\ \A sp \in BOOLEAN, bufsize \in BufSizes :
                /\ Untouching(q_remove_head(State, sp, bufsize))
                /\ ~q_remove_head(State, sp, bufsize).ok
                /\ \A i \in 1..bufsize :
                      q_remove_head(State, sp, bufsize).out[i] = Untouched
          /\ q_size(State) = 0
          /\ Untouching(q_reverse(State))
          /\ Untouching(q_sort(State))
          /\ Untouching(q_free(State))
    /\ (last.op # "none" /\ last.op # "q_new" /\ last.before.q = NULL) =>
          /\ Seen = last.before
          /\ last.log = <<>>
          /\ ~last.fault
          /\ ~last.oob
          /\ last.op \in Inserts \cup {"q_remove_head"} => ~last.ok
          /\ last.op = "q_size" => last.ret = 0

\* q_insert_tail was called with no queue and returned false.
C13_Witness ==
    /\ last.op = "q_insert_tail"
    /\ last.before.q = NULL
    /\ ~last.ok
    /\ qp = NULL

\* The smaller of two numbers.
Min(x, y) == IF x <= y THEN x ELSE y

\* C14: a q_remove_head that returned true with a buffer of bufsize bytes
\* wrote the first min(len, bufsize - 1) bytes of the removed string and a
\* terminator after them, and nothing outside the bufsize bytes of the
\* buffer, for every bufsize, 0 too; with no buffer it wrote nothing.
C14_CopyStaysInBuffer ==
    (last.op = "q_remove_head" /\ last.ok) =>
        LET v == last.before.vals[1]
            k == Min(Len(v), last.bufsize - 1)
        IN /\ ~last.oob
           /\ (last.sp /\ last.bufsize >= 1) =>
                 /\ \A i \in 1..k : last.out[i] = <<v[i]>>
                 /\ last.out[k + 1] = <<0>>
           /\ ~last.sp => \A i \in 1..last.bufsize : last.out[i] = Untouched

\* C15: when the nodes at the front of the two chains given to merge have
\* equal hashes and unequal values, merge takes the one that strnatcmp puts
\* first: a's unless strnatcmp(a, b) is 1.  The comparison of the hashes
\* alone never decides.
C15_CollisionUsesFullCompare ==
    \A a, b \in nodeLive :
        (/\ a # b
         /\ node[a].hash = node[b].hash
         /\ ValueAt(node, buf, a) # ValueAt(node, buf, b)) =>
            (TakeA(node, buf, a, b)
                <=> strnatcmp(ValueAt(node, buf, a), ValueAt(node, buf, b)) # 1)

\* The values vs follow the natural order.
SortedValues(vs) ==
    \A i \in 1..(Len(vs) - 1) : NatCmpOf[vs[i], vs[i + 1]] # 1

\* The node memory with the chain from head cut after its k-th node.
CutAfter(k) ==
    IF k = 0 THEN node ELSE [node EXCEPT ![Chain[k]].next = NULL]

\* C16: the test of the hashes in merge is an optimisation only: for every
\* pair of sorted chains, merge (with the test) returns the nodes in the
\* order in which the earlier merge, which always calls strnatcmp, returns
\* them, nodes of equal value included.
C16_HashPathSameAsFullCompare ==
    \A k \in 0..Len(Chain) :
        LET nd == CutAfter(k)
            a == IF k = 0 THEN NULL ELSE head
            b == IF k = Len(Chain) THEN NULL ELSE Chain[k + 1]
            new == merge(nd, buf, a, b)
            old == merge_old(nd, buf, a, b)
        IN (/\ qp # NULL
            /\ Len(Chain) >= 1
            /\ SortedValues(SubSeq(ChainValues, 1, k))
            /\ SortedValues(SubSeq(ChainValues, k + 1, Len(Chain)))) =>
               ChainFrom(new.node, new.newh, MaxNodes + 1)
                  = ChainFrom(old.node, old.newh, MaxNodes + 1)

\* The sequence s from its last element to its first.
Reversed(s) == [i \in 1..Len(s) |-> s[Len(s) + 1 - i]]

\* The queue st holds the nodes of the chain from head in State in the
\* opposite order, with head and tail exchanged and the chain ended by NULL
\* after the new tail.
IsReverseOf(st) ==
    /\ ChainFrom(st.node, st.head, MaxNodes + 1) = Reversed(Chain)
    /\ ValuesIn(st) = Reversed(ChainValues)
    /\ st.head = tail
    /\ st.tail = head
    /\ st.node[st.tail].next = NULL
    /\ st.size = size

\* C17: on a queue of n >= 2 elements e1..en, q_reverse leaves en..e1, the
\* new head is the old tail, the new tail is the old head, and next of the
\* new tail is NULL; the earlier q_reverse does the same.
C17_ReverseReverses ==
    /\ (qp # NULL /\ size >= 2) =>
          /\ IsReverseOf(q_reverse(State).st)
          /\ IsReverseOf(q_reverse_old(State).st)
          /\ ~q_reverse(State).fault
          /\ ~q_reverse_old(State).fault
    /\ (last.op = "q_reverse" /\ last.before.size >= 2) =>
          /\ Chain = Reversed(last.before.chain)
          /\ ChainValues = Reversed(last.before.vals)
          /\ head = last.before.tail
          /\ tail = last.before.head
          /\ node[tail].next = NULL

\* q_reverse has returned on a queue of three nodes with three different
\* values.
C17_Witness ==
    /\ last.op = "q_reverse"
    /\ last.before.size = 3
    /\ Cardinality(Range(ChainValues)) = 3
    /\ head = last.before.tail

\* What C18 says of the calls of merge_sort in cs, the first of them made by
\* q_sort on a queue with the chain top.
SortCallsAsSaid(cs, top) ==
    /\ cs # <<>>
    /\ cs[1].chain = top
    /\ \A i \in 1..Len(cs) :
          LET c == cs[i]
          IN /\ c.size >= 1
             /\ Len(c.chain) = c.size
             /\ Cardinality(Range(c.chain)) = c.size
             /\ c.size >= 2 =>
                   /\ Len(c.left) = c.size \div 2
                   /\ Len(c.right) = c.size - c.size \div 2
                   /\ c.left \o c.right = c.chain
                   \* the two calls it makes get the two parts
                   /\ cs[i + 1].chain = c.left
                   /\ cs[i + 1].size = Len(c.left)
                   /\ \E j \in (i + 2)..Len(cs) :
                         /\ cs[j].chain = c.right
                         /\ cs[j].size = Len(c.right)

\* C18: every call of merge_sort, by q_sort or by merge_sort, gets a chain
\* ended by NULL of exactly size nodes with size >= 1; it cuts the chain so
\* that the left part has size / 2 nodes (rounded down) and the right part
\* the rest; a chain of one node is returned as it is.
C18_MergeSortCalls ==
    /\ (qp # NULL /\ size >= 2) =>
          /\ SortCallsAsSaid(q_sort(State).calls, Chain)
          /\ \A p \in nodeLive :
                LET one == merge_sort(node, buf, p, 1)
                IN one.newh = p /\ one.node = node /\ ~one.fault
    /\ (last.op = "q_sort" /\ last.before.size >= 2) =>
          SortCallsAsSaid(last.calls, last.before.chain)

\* q_sort on three nodes: merge_sort was called on 3, 1, 2, 1 and 1 nodes.
C18_Witness ==
    /\ last.op = "q_sort"
    /\ last.before.size = 3
    /\ Len(last.calls) = 5
    /\ last.calls[1].size = 3
    /\ last.calls[3].size = 2

\* q_remove_head has emptied the queue and left q->tail pointing to the node
\* it freed.
StaleTail == qp # NULL /\ size = 0 /\ tail # NULL

\* C19: no operation reads or writes through a pointer to a freed node.
\* After q_remove_head has emptied the queue, q->tail still holds the
\* address of the freed node, and no later q_insert_tail, q_insert_head,
\* q_reverse, q_sort or q_free reads tail->next or stores through tail.
C19_NoUseAfterFree ==
    /\ ~last.fault
    /\ Range(Chain) \subseteq nodeLive
    /\ (qp # NULL /\ size > 0) => tail \in nodeLive
    /\ StaleTail =>
          /\ \A s \in Values, n \in Malloc(Addr, nodeLive),
                b \in Malloc(BufAddr, bufLive) :
                /\ ~q_insert_tail(State, s, n, b).fault
                /\ ~q_insert_head(State, s, n, b).fault
                \* the node at the stale address is not written
                /\ \A a \in Addr \ {n} :
                      /\ q_insert_tail(State, s, n, b).st.node[a] = node[a]
                      /\ q_insert_head(State, s, n, b).st.node[a] = node[a]
          /\ ~q_reverse(State).fault /\ q_reverse(State).st = State
          /\ ~q_sort(State).fault /\ q_sort(State).st = State
          /\ ~q_free(State).fault
          /\ \A sp \in BOOLEAN, bufsize \in BufSizes :
                ~q_remove_head(State, sp, bufsize).fault

\* q_insert_tail has returned true on a queue that q_remove_head had emptied,
\* whose tail pointed to a freed node.
C19_Witness ==
    /\ last.op = "q_insert_tail"
    /\ last.ok
    /\ last.before.size = 0
    /\ last.before.tail # NULL
    /\ last.before.tail \notin last.before.nodeLive
    /\ ~last.fault

\* ------------------------------------------------- the loops, step by step

\* In SpecRun q_free, q_reverse and q_sort run one loop iteration (or one
\* call or return of merge_sort) per step; the other handlers have no loop
\* over the nodes and stay one step.  The record of the last call is not
\* kept.

heap == <<node, nodeLive, buf, bufLive>>

\* A frame of merge_sort: head and size are its arguments, the rest its
\* locals and, from pc "merge" on, those of the merge it calls.  pc is
\* "entry", "split" (the for loop), "left" and "right" (waiting for the
\* first and the second recursive call) or "merge" (the while loop).
Frame(pc, hd, sz) ==
    [pc |-> pc, head |-> hd, size |-> sz, mid |-> 0, pmid |-> NULL,
     i |-> 0, newh |-> NULL, a |-> NULL, b |-> NULL, indirect |-> NULL]

\* The frame of the call of merge_sort that is running.
Top == run.stack[Len(run.stack)]

WithTop(f) == [run.stack EXCEPT ![Len(run.stack)] = f]

\* The deepest the calls of merge_sort may nest before a step refuses to
\* call again.
MaxDepth == MaxNodes + 1

RunNew ==
    /\ run = Idle
    /\ qp = NULL
    /\ Becomes(q_new(State, 1))
    /\ net' = 0
    /\ UNCHANGED last

RunInsertHead ==
    /\ run = Idle
    /\ \E s \in Values, n \in Malloc(Addr, nodeLive),
          b \in Malloc(BufAddr, bufLive) :
          LET r == q_insert_head(State, s, n, b)
          IN /\ Becomes(r)
             /\ net' = IF r.ok THEN net + 1 ELSE net
    /\ UNCHANGED last

RunInsertTail ==
    /\ run = Idle
    /\ \E s \in Values, n \in Malloc(Addr, nodeLive),
          b \in Malloc(BufAddr, bufLive) :
          LET r == q_insert_tail(State, s, n, b)
          IN /\ Becomes(r)
             /\ net' = IF r.ok THEN net + 1 ELSE net
    /\ UNCHANGED last

RunRemoveHead ==
    /\ run = Idle
    /\ LET r == q_remove_head(State, FALSE, 0)
       IN /\ Becomes(r)
          /\ net' = IF r.ok THEN net - 1 ELSE net
    /\ UNCHANGED last

\* q_free: if (!q) return; p = q->head;
FreeBegin ==
    /\ run = Idle
    /\ qp # NULL
    /\ run' = [Idle EXCEPT !.pc = "q_free", !.p = head, !.start = State]
    /\ UNCHANGED <<qp, head, tail, size, heap, net, last>>

\* while (p) { free(p->value); tmp = p; p = p->next; free(tmp); }
FreeStep ==
    /\ run.pc = "q_free"
    /\ run.p # NULL
    /\ LET p == run.p
           v == node[p].value
       IN /\ bufLive' = bufLive \ {v}
          /\ buf' = IF v = NULL THEN buf ELSE [buf EXCEPT ![v] = NoStr]
          /\ nodeLive' = nodeLive \ {p}
          /\ node' = [node EXCEPT ![p] = NoNode]
          /\ run' = [run EXCEPT !.p = node[p].next]
    /\ UNCHANGED <<qp, head, tail, size, net, last>>

\* free(q); the caller drops its pointer.
FreeEnd ==
    /\ run.pc = "q_free"
    /\ run.p = NULL
    /\ qp' = NULL
    /\ head' = NULL
    /\ tail' = NULL
    /\ size' = 0
    /\ net' = 0
    /\ run' = Idle
    /\ UNCHANGED <<heap, last>>

\* q_reverse: if (!q || q->size <= 1) return; p = q->head; prev = NULL;
ReverseBegin ==
    /\ run = Idle
    /\ qp # NULL
    /\ size > 1
    /\ run' = [Idle EXCEPT !.pc = "q_reverse", !.p = head, !.prev = NULL,
                           !.start = State]
    /\ UNCHANGED <<qp, head, tail, size, heap, net, last>>

\* The loop of q_reverse without p = next.
ReverseStep_no_advance ==
    /\ run.pc = "q_reverse"
    /\ run.p # NULL
    /\ node' = [node EXCEPT ![run.p].next = run.prev]
    /\ run' = [run EXCEPT !.prev = run.p]
    /\ UNCHANGED <<qp, head, tail, size, nodeLive, buf, bufLive, net, last>>

\* while (p) { next = p->next; p->next = prev; prev = p; p = next; }
ReverseStep ==
    /\ run.pc = "q_reverse"
    /\ run.p # NULL
    /\ node' = [node EXCEPT ![run.p].next = run.prev]
    /\ run' = [run EXCEPT !.prev = run.p, !.p = node[run.p].next]
    /\ UNCHANGED <<qp, head, tail, size, nodeLive, buf, bufLive, net, last>>

\* p = q->head; q->head = q->tail; q->tail = p;
ReverseEnd ==
    /\ run.pc = "q_reverse"
    /\ run.p = NULL
    /\ head' = tail
    /\ tail' = head
    /\ run' = Idle
    /\ UNCHANGED <<qp, size, heap, net, last>>

\* q_sort: if (!q || q->size <= 1) return; merge_sort(q->head, q->size)
SortBegin ==
    /\ run = Idle
    /\ qp # NULL
    /\ size > 1
    /\ run' = [Idle EXCEPT !.pc = "merge_sort",
                           !.stack = <<Frame("entry", head, size)>>,
                           !.start = State]
    /\ UNCHANGED <<qp, head, tail, size, heap, net, last>>

\* return v from the running call of merge_sort: to q_sort, which stores it
\* in q->head and starts its for loop, or to the call below, which goes on
\* to its second call or to merge.
Return(v) ==
    LET rest == SubSeq(run.stack, 1, Len(run.stack) - 1)
        c == rest[Len(rest)]
        \* head = <v>; then merge_sort(pmid, size - mid)
        second == [c EXCEPT !.pc = "right", !.head = v]
        \* pmid = <v>; then merge(head, pmid), where newh = NULL
        merging == [c EXCEPT !.pc = "merge", !.pmid = v, !.a = c.head,
                             !.b = v, !.newh = NULL, !.indirect = NULL]
    IN IF rest = <<>>
       THEN /\ head' = v
            /\ run' = [run EXCEPT !.pc = "q_sort", !.stack = <<>>, !.p = v]
       ELSE /\ head' = head
            /\ run' = [run EXCEPT !.stack =
                         IF c.pc = "left"
                         THEN Append([rest EXCEPT ![Len(rest)] = second],
                                     Frame("entry", c.pmid, c.size - c.mid))
                         ELSE [rest EXCEPT ![Len(rest)] = merging]]

\* mid = size >> 1; if (size == 1) return head; pmid = head; i = 0;
SortEntry ==
    /\ run.pc = "merge_sort"
    /\ Top.pc = "entry"
    /\ IF Top.size = 1 THEN Return(Top.head)
       ELSE /\ run' = [run EXCEPT !.stack =
                         WithTop([Top EXCEPT !.pc = "split",
                                             !.mid = Top.size \div 2,
                                             !.pmid = Top.head, !.i = 0])]
            /\ head' = head
    /\ UNCHANGED <<qp, tail, size, heap, net, last>>

\* for (i = 0; i < mid; i++) { next = pmid->next;
\*     if (i == mid - 1) pmid->next = NULL; pmid = next; }
SplitStep ==
    /\ run.pc = "merge_sort"
    /\ Top.pc = "split"
    /\ Top.i < Top.mid
    /\ Top.pmid # NULL
    /\ node' = IF Top.i = Top.mid - 1
               THEN [node EXCEPT ![Top.pmid].next = NULL] ELSE node
    /\ run' = [run EXCEPT !.stack =
                 WithTop([Top EXCEPT !.pmid = node[Top.pmid].next,
                                     !.i = Top.i + 1])]
    /\ UNCHANGED <<qp, head, tail, size, nodeLive, buf, bufLive, net, last>>

\* head = merge_sort(head, mid): the first recursive call.
SplitEnd ==
    /\ run.pc = "merge_sort"
    /\ Top.pc = "split"
    /\ Top.i >= Top.mid
    /\ Len(run.stack) < MaxDepth
    /\ run' = [run EXCEPT !.stack =
                 Append(WithTop([Top EXCEPT !.pc = "left"]),
                        Frame("entry", Top.head, Top.mid))]
    /\ UNCHANGED <<qp, head, tail, size, heap, net, last>>

\* while (a || b) { *indirect = <a or b>; <a or b> = <its> next;
\*     indirect = &(*indirect)->next; }
MergeStep ==
    /\ run.pc = "merge_sort"
    /\ Top.pc = "merge"
    /\ Top.a # NULL \/ Top.b # NULL
    /\ LET takeA == TakeA(node, buf, Top.a, Top.b)
           t == IF takeA THEN Top.a ELSE Top.b
           f == IF Top.indirect = NULL THEN [Top EXCEPT !.newh = t] ELSE Top
       IN /\ node' = IF Top.indirect = NULL THEN node
                     ELSE [node EXCEPT ![Top.indirect].next = t]
          /\ run' = [run EXCEPT !.stack =
                       WithTop([f EXCEPT
                                  !.a = IF takeA THEN node[t].next ELSE @,
                                  !.b = IF takeA THEN @ ELSE node[t].next,
                                  !.indirect = t])]
    /\ UNCHANGED <<qp, head, tail, size, nodeLive, buf, bufLive, net, last>>

\* *indirect = NULL; return newh;
MergeEnd ==
    /\ run.pc = "merge_sort"
    /\ Top.pc = "merge"
    /\ Top.a = NULL /\ Top.b = NULL
    /\ node' = IF Top.indirect = NULL THEN node
               ELSE [node EXCEPT ![Top.indirect].next = NULL]
    /\ Return(Top.newh)
    /\ UNCHANGED <<qp, tail, size, nodeLive, buf, bufLive, net, last>>

\* for (p = q->head; p; p = p->next) q->tail = p;
TailStep ==
    /\ run.pc = "q_sort"
    /\ run.p # NULL
    /\ tail' = run.p
    /\ run' = [run EXCEPT !.p = node[run.p].next]
    /\ UNCHANGED <<qp, head, size, heap, net, last>>

TailEnd ==
    /\ run.pc = "q_sort"
    /\ run.p = NULL
    /\ run' = Idle
    /\ UNCHANGED <<qp, head, tail, size, heap, net, last>>

\* A step of the call in progress.
Step ==
    \/ FreeStep
    \/ FreeEnd
    \/ ReverseStep
    \/ ReverseEnd
    \/ SortEntry
    \/ SplitStep
    \/ SplitEnd
    \/ MergeStep
    \/ MergeEnd
    \/ TailStep
    \/ TailEnd

NextRun ==
    \/ RunNew
    \/ RunInsertHead
    \/ RunInsertTail
    \/ RunRemoveHead
    \/ FreeBegin
    \/ ReverseBegin
    \/ SortBegin
    \/ Step

\* A call that has begun goes on: the caller may stop calling, the code in
\* a call does not stop between two statements.
SpecRun == Init /\ [][NextRun]_vars /\ WF_vars(Step)

\* What the handler named pc returns from the state st in one step.
Handler(pc, st) ==
    CASE pc = "q_free" -> q_free(st)
      [] pc = "q_reverse" -> q_reverse(st)
      [] OTHER -> q_sort(st)

\* Between two calls the chain from head is ended by NULL after size
\* different nodes, each allocated.
ChainFinite ==
    (run = Idle /\ qp # NULL) =>
        /\ Len(Chain) = size
        /\ Cardinality(Range(Chain)) = size
        /\ Range(Chain) \subseteq nodeLive

\* Every call of merge_sort in progress has a size of 1 or more, smaller
\* than the size of the call that made it.
SizesShrink ==
    \A k \in 1..Len(run.stack) :
        /\ run.stack[k].size >= 1
        /\ k > 1 => run.stack[k].size < run.stack[k - 1].size

\* The step that ends a call leaves the state the handler returns.
EndsAsHandler ==
    (run.pc # "idle" /\ run'.pc = "idle") =>
        State' = Handler(run.pc, run.start).st

\* C20: every call of q_free, q_reverse and q_sort on a reachable queue
\* comes to its end: the loops of q_free and q_reverse, the for loop and the
\* recursion of merge_sort, the loop of merge and the loop of q_sort that
\* finds the tail all stop, the chain from head being finite and without a
\* cycle and every recursive call getting a smaller size; and the call ends
\* in the state the handler is said to return.
C20_OperationsTerminate ==
    /\ (run.pc # "idle") ~> (run.pc = "idle")
    /\ [](ChainFinite /\ SizesShrink)
    /\ [][EndsAsHandler]_vars

\* q_sort on three nodes is in the loop of merge for the last time, two
\* calls of merge_sort having returned to the first.
C20_Witness ==
    /\ run.pc = "merge_sort"
    /\ Len(run.stack) = 1
    /\ Top.pc = "merge"
    /\ Top.size = 3
    /\ Top.a # NULL
    /\ Top.b # NULL

=============================================================================
